---- MODULE Spec2Model ----
(***************************************************************************)
(* A model of the Nash-equilibrium question type of SmarTest               *)
(* (src/question_types/nash_equilibrium.py): the brute-force solver        *)
(* (_find_nash_equilibria, generate_answer), the partial-credit scorer     *)
(* (evaluate_answer), the interpreter of answer texts                      *)
(* (_parse_student_answer), the generator (generate_question) and the      *)
(* explanations (answer_question); and of the test service                 *)
(* (src/services/test_service.py: create_test, get_test_questions).        *)
(*                                                                         *)
(* Representation.                                                         *)
(*   - Row and column indices are 0-based, as in the source.               *)
(*   - The payoff matrix is a function from <<i, j>> to <<p1, p2>>; the    *)
(*     source keys the same dict with the string "i,j".                    *)
(*   - Python lists are sequences; Python tuples (i, j) are <<i, j>>.      *)
(*   - A score is kept in hundredths of a point (6250 is 62.50).  The      *)
(*     source computes it in floating point and rounds to two decimals;    *)
(*     the model computes the same quantity as an exact fraction over      *)
(*     total_correct and rounds it half-to-even, which is what round()     *)
(*     returns: an exact tie is a multiple of 1/8 for every total_correct  *)
(*     below 1000, hence exact in binary, and off a tie the fraction is    *)
(*     at least 1/(200 * total_correct) away from the rounding boundary.   *)
(*   - Feedback strings are represented by a tag for their fixed wording   *)
(*     and the values interpolated into them.                              *)
(***************************************************************************)
EXTENDS Integers, Sequences, FiniteSets, TLC

VARIABLES pc, request, question_data, correct_answer, explanation, student_answer, student,
          result, db, response

vars == <<pc, request, question_data, correct_answer, explanation, student_answer, student,
          result, db, response>>

(***************************************************************************)
(* Bounds of the model.                                                    *)
(***************************************************************************)
\* Largest number of rows and of columns of an instance.
MaxRows == 3

MaxCols == 3

\* Largest number of cells (rows * cols) of an instance given to the solver.
MaxCells == 6

\* Largest number of cells of an instance whose answers are graded.
MaxGradedCells == 4

\* Largest number of label pairs found in one student answer.
MaxClaimed == 3

\* Largest number of phrases of an enumerated answer text.
MaxPhrases == 2

\* Largest rows or cols override of an enumerated generation request.
MaxOverride == 2

\* Largest number of matrices one enumerated generation request can draw.
MaxMatrices == 256

\* Largest number of question ids listed in one create_test call.
MaxListed == 3

\* The payoffs an enumerated instance draws from.
PayoffValues == {0, 1}

None == "None"

(***************************************************************************)
(* Python helpers.                                                         *)
(***************************************************************************)
\* range(n)
Range(n) == 0 .. (n - 1)

\* set(list)
ToSet(list) == {list[k] : k \in 1 .. Len(list)}

\* min(a, b), max(a, b)
Min(a, b) == IF a < b THEN a ELSE b

Max(a, b) == IF a > b THEN a ELSE b

\* round(num / den, 0) for num >= 0, den > 0: ties go to the even neighbour.
RoundHalfEven(num, den) ==
    LET q == num \div den
        r == num % den
    IN  IF 2 * r < den THEN q
        ELSE IF 2 * r > den THEN q + 1
        ELSE IF q % 2 = 0 THEN q ELSE q + 1

\* list[:stop]: a negative stop counts from the end of the list.
Slice(list, stop) ==
    SubSeq(list, 1, IF stop >= 0 THEN Min(stop, Len(list)) ELSE Max(0, Len(list) + stop))

\* dict.get(key, default)
Get(dict, key, default) == IF key \in DOMAIN dict THEN dict[key] ELSE default

\* min(base ** exponent, cap), for base >= 0, exponent >= 0 and cap >= 1
RECURSIVE CappedPow(_, _, _)
CappedPow(base, exponent, cap) ==
    IF exponent <= 0 THEN 1 ELSE Min(cap, base * CappedPow(base, exponent - 1, cap))

(***************************************************************************)
(* Instances.                                                              *)
(***************************************************************************)
Cells(rows, cols) == Range(rows) \X Range(cols)

\* _generate_labels(count, label_type)
generate_labels(count, label_type) ==
    IF label_type = "row"
    THEN IF count <= 3
         THEN Slice(<<"U", "M", "D">>, count)
         ELSE [k \in 1 .. count |-> "R" \o ToString(k)]
    ELSE IF count <= 3
         THEN Slice(<<"L", "C", "R">>, count)
         ELSE [k \in 1 .. count |-> "C" \o ToString(k)]

\* The question_data dict built by generate_question.
QuestionData(rows, cols, matrix, row_labels, col_labels) ==
    [matrix |-> matrix, rows |-> rows, cols |-> cols,
     row_labels |-> row_labels, col_labels |-> col_labels]

\* The matrix given as two lists of rows, one per player.
MatrixOf(rows, cols, p1, p2) ==
    [c \in Cells(rows, cols) |-> <<p1[c[1] + 1][c[2] + 1], p2[c[1] + 1][c[2] + 1]>>]

\* The 2x2 instance with one payoff of 5 for both players at (U, L), with the
\* row labels U, D and the column labels L, R.
CoordinationGame ==
    QuestionData(2, 2, MatrixOf(2, 2, <<<<5, 0>>, <<0, 0>>>>, <<<<5, 0>>, <<0, 0>>>>),
                 <<"U", "D">>, <<"L", "R">>)

\* Matching pennies.
MatchingPennies ==
    QuestionData(2, 2, MatrixOf(2, 2, <<<<1, -1>>, <<-1, 1>>>>, <<<<-1, 1>>, <<1, -1>>>>),
                 generate_labels(2, "row"), generate_labels(2, "col"))

\* The shapes (rows, cols) with at most n cells.
Shapes(n) == {s \in (1 .. MaxRows) \X (1 .. MaxCols) : s[1] * s[2] <= n}

(***************************************************************************)
(* The solver.                                                             *)
(***************************************************************************)
\* Variants of the inner loops and of the outer loops with one slip each.
\* The comparison is >= instead of >.
RECURSIVE p1_best_response_nonstrict(_, _, _, _, _)
p1_best_response_nonstrict(matrix, rows, i, j, alt_i) ==
    IF alt_i >= rows THEN TRUE
    ELSE IF alt_i # i /\ matrix[<<alt_i, j>>][1] >= matrix[<<i, j>>][1] THEN FALSE
    ELSE p1_best_response_nonstrict(matrix, rows, i, j, alt_i + 1)

\* Only the rows after row i are compared (alt_i > i instead of alt_i != i).
RECURSIVE p1_best_response_below(_, _, _, _, _)
p1_best_response_below(matrix, rows, i, j, alt_i) ==
    IF alt_i >= rows THEN TRUE
    ELSE IF alt_i > i /\ matrix[<<alt_i, j>>][1] > matrix[<<i, j>>][1] THEN FALSE
    ELSE p1_best_response_below(matrix, rows, i, j, alt_i + 1)

\* The inner loop "for alt_i in range(rows)" of _find_nash_equilibria, from
\* alt_i on: FALSE at the first other row with a greater player-1 payoff.
RECURSIVE p1_best_response(_, _, _, _, _)
p1_best_response(matrix, rows, i, j, alt_i) ==
    IF alt_i >= rows THEN TRUE
    ELSE IF alt_i # i /\ matrix[<<alt_i, j>>][1] > matrix[<<i, j>>][1] THEN FALSE
    ELSE p1_best_response(matrix, rows, i, j, alt_i + 1)

\* The comparison is >= instead of >.
RECURSIVE p2_best_response_nonstrict(_, _, _, _, _)
p2_best_response_nonstrict(matrix, cols, i, j, alt_j) ==
    IF alt_j >= cols THEN TRUE
    ELSE IF alt_j # j /\ matrix[<<i, alt_j>>][2] >= matrix[<<i, j>>][2] THEN FALSE
    ELSE p2_best_response_nonstrict(matrix, cols, i, j, alt_j + 1)

\* Player 1's payoff is read where player 2's is meant ([0] instead of [1]).
RECURSIVE p2_best_response_player1(_, _, _, _, _)
p2_best_response_player1(matrix, cols, i, j, alt_j) ==
    IF alt_j >= cols THEN TRUE
    ELSE IF alt_j # j /\ matrix[<<i, alt_j>>][1] > matrix[<<i, j>>][1] THEN FALSE
    ELSE p2_best_response_player1(matrix, cols, i, j, alt_j + 1)

\* The inner loop "for alt_j in range(cols)", from alt_j on.
RECURSIVE p2_best_response(_, _, _, _, _)
p2_best_response(matrix, cols, i, j, alt_j) ==
    IF alt_j >= cols THEN TRUE
    ELSE IF alt_j # j /\ matrix[<<i, alt_j>>][2] > matrix[<<i, j>>][2] THEN FALSE
    ELSE p2_best_response(matrix, cols, i, j, alt_j + 1)

\* The two outer loops are swapped: columns outside, rows inside.
RECURSIVE find_from_column_major(_, _, _, _, _, _)
find_from_column_major(matrix, rows, cols, i, j, equilibria) ==
    IF j >= cols THEN equilibria
    ELSE IF i >= rows THEN find_from_column_major(matrix, rows, cols, 0, j + 1, equilibria)
    ELSE find_from_column_major(matrix, rows, cols, i + 1, j,
                   IF /\ p1_best_response(matrix, rows, i, j, 0)
                      /\ p2_best_response(matrix, cols, i, j, 0)
                   THEN Append(equilibria, <<i, j>>)
                   ELSE equilibria)

\* The two outer loops, from cell (i, j) on, appending to equilibria.
RECURSIVE find_from(_, _, _, _, _, _)
find_from(matrix, rows, cols, i, j, equilibria) ==
    IF i >= rows THEN equilibria
    ELSE IF j >= cols THEN find_from(matrix, rows, cols, i + 1, 0, equilibria)
    ELSE find_from(matrix, rows, cols, i, j + 1,
                   IF /\ p1_best_response(matrix, rows, i, j, 0)
                      /\ p2_best_response(matrix, cols, i, j, 0)
                   THEN Append(equilibria, <<i, j>>)
                   ELSE equilibria)

\* _find_nash_equilibria(matrix, rows, cols)
find_nash_equilibria(matrix, rows, cols) ==
    find_from(matrix, rows, cols, 0, 0, <<>>)

\* exists is set without looking at the equilibria.
generate_answer_exists_true(qd) ==
    LET equilibria == find_nash_equilibria(qd.matrix, qd.rows, qd.cols)
    IN  [exists |-> TRUE,
         equilibria |-> equilibria,
         row_labels |-> qd.row_labels,
         col_labels |-> qd.col_labels]

\* generate_answer(question_data)
generate_answer(qd) ==
    LET equilibria == find_nash_equilibria(qd.matrix, qd.rows, qd.cols)
    IN  [exists |-> Len(equilibria) > 0,
         equilibria |-> equilibria,
         row_labels |-> qd.row_labels,
         col_labels |-> qd.col_labels]

(***************************************************************************)
(* The scorer.                                                             *)
(***************************************************************************)
\* One feedback string: the tag of its wording, the count and the total it
\* quotes and the labelled cells it lists (0, 0 and {} when it has none).
Feedback(tag, count, total, cells) ==
    [tag |-> tag, count |-> count, total |-> total, cells |-> cells]

\* The cells of a set of positions as the label pairs the feedback prints.
Labelled(positions, qd) ==
    {<<qd.row_labels[p[1] + 1], qd.col_labels[p[2] + 1]>> : p \in positions}

\* The points go to every answer that affirms existence
\* ("if student_exists:" instead of "if student_exists == correct_exists:").
existence_score_affirmed(student_exists, correct_exists) ==
    IF student_exists THEN 50 ELSE 0

\* "Score existence (50 points)" of evaluate_answer: the points.
existence_score(student_exists, correct_exists) ==
    IF student_exists = correct_exists THEN 50 ELSE 0

\* "Score existence (50 points)" of evaluate_answer: the feedback.
existence_feedback(student_exists, correct_exists) ==
    IF student_exists = correct_exists
    THEN IF correct_exists
         THEN Feedback("correct_exists", 0, 0, {})
         ELSE Feedback("correct_not_exists", 0, 0, {})
    ELSE IF student_exists
         THEN Feedback("incorrect_said_exists", 0, 0, {})
         ELSE Feedback("incorrect_said_not_exists", 0, 0, {})

\* The penalty is not capped at half of the position score.
partial_credit_uncapped(n_correct_found, n_incorrect_found) ==
    LET position_score == n_correct_found * 50
        penalty == n_incorrect_found * 25
    IN  IF n_incorrect_found > 0
        THEN Max(0, position_score - penalty)
        ELSE position_score

\* The penalty is added to the position score instead of subtracted.
partial_credit_penalty_added(n_correct_found, n_incorrect_found) ==
    LET position_score == n_correct_found * 50
        penalty == Min(n_incorrect_found * 25, position_score \div 2)
    IN  IF n_incorrect_found > 0
        THEN Max(0, position_score + penalty)
        ELSE position_score

\* "Partial credit calculation" of evaluate_answer, as the numerator of a
\* fraction over total_correct:
\*   position_score = (len(correct_found) / total_correct) * 50
\*   penalty = min((len(incorrect_found) / total_correct) * 25, position_score * 0.5)
\*   position_score = max(0, position_score - penalty)
partial_credit(n_correct_found, n_incorrect_found) ==
    LET position_score == n_correct_found * 50
        penalty == Min(n_incorrect_found * 25, position_score \div 2)
    IN  IF n_incorrect_found > 0
        THEN Max(0, position_score - penalty)
        ELSE position_score

\* A perfect match earns 25 points instead of 50.
position_score_half(student_positions_set, correct_positions) ==
    LET correct_found == student_positions_set \cap correct_positions
        incorrect_found == student_positions_set \ correct_positions
        total_correct == Cardinality(correct_positions)
    IN  IF Cardinality(correct_found) = total_correct /\ Cardinality(incorrect_found) = 0
        THEN 25 * total_correct
        ELSE IF Cardinality(student_positions_set) = 0
        THEN 0
        ELSE partial_credit(Cardinality(correct_found), Cardinality(incorrect_found))

\* "Score positions (50 points)" of evaluate_answer: the points, as the
\* numerator of a fraction over total_correct.
position_score(student_positions_set, correct_positions) ==
    LET correct_found == student_positions_set \cap correct_positions
        incorrect_found == student_positions_set \ correct_positions
        total_correct == Cardinality(correct_positions)
    IN  IF Cardinality(correct_found) = total_correct /\ Cardinality(incorrect_found) = 0
        THEN 50 * total_correct
        ELSE IF Cardinality(student_positions_set) = 0
        THEN 0
        ELSE partial_credit(Cardinality(correct_found), Cardinality(incorrect_found))

\* The branch for an answer without positions is missing.
position_feedback_no_empty_branch(student_positions_set, correct_positions, qd) ==
    LET correct_found == student_positions_set \cap correct_positions
        incorrect_found == student_positions_set \ correct_positions
        missed == correct_positions \ student_positions_set
        total_correct == Cardinality(correct_positions)
    IN  IF Cardinality(correct_found) = total_correct /\ Cardinality(incorrect_found) = 0
        THEN <<Feedback("perfect", 0, 0, {})>>
        ELSE (IF correct_found # {}
              THEN <<Feedback("partial_found", Cardinality(correct_found),
                              total_correct, Labelled(correct_found, qd))>>
              ELSE <<>>)
             \o
             (IF incorrect_found # {}
              THEN <<Feedback("incorrectly_identified", Cardinality(incorrect_found),
                              0, Labelled(incorrect_found, qd))>>
              ELSE <<>>)
             \o
             (IF missed # {}
              THEN <<Feedback("missed", Cardinality(missed), 0, Labelled(missed, qd))>>
              ELSE <<>>)

\* The missed equilibria are reported before the incorrectly claimed cells.
position_feedback_missed_first(student_positions_set, correct_positions, qd) ==
    LET correct_found == student_positions_set \cap correct_positions
        incorrect_found == student_positions_set \ correct_positions
        missed == correct_positions \ student_positions_set
        total_correct == Cardinality(correct_positions)
    IN  IF Cardinality(correct_found) = total_correct /\ Cardinality(incorrect_found) = 0
        THEN <<Feedback("perfect", 0, 0, {})>>
        ELSE IF Cardinality(student_positions_set) = 0
        THEN <<Feedback("no_positions", 0, 0, {})>>
        ELSE (IF correct_found # {}
              THEN <<Feedback("partial_found", Cardinality(correct_found),
                              total_correct, Labelled(correct_found, qd))>>
              ELSE <<>>)
             \o
             (IF missed # {}
              THEN <<Feedback("missed", Cardinality(missed), 0, Labelled(missed, qd))>>
              ELSE <<>>)
             \o
             (IF incorrect_found # {}
              THEN <<Feedback("incorrectly_identified", Cardinality(incorrect_found),
                              0, Labelled(incorrect_found, qd))>>
              ELSE <<>>)

\* "Score positions (50 points)" of evaluate_answer: the feedback.
position_feedback(student_positions_set, correct_positions, qd) ==
    LET correct_found == student_positions_set \cap correct_positions
        incorrect_found == student_positions_set \ correct_positions
        missed == correct_positions \ student_positions_set
        total_correct == Cardinality(correct_positions)
    IN  IF Cardinality(correct_found) = total_correct /\ Cardinality(incorrect_found) = 0
        THEN <<Feedback("perfect", 0, 0, {})>>
        ELSE IF Cardinality(student_positions_set) = 0
        THEN <<Feedback("no_positions", 0, 0, {})>>
        ELSE (IF correct_found # {}
              THEN <<Feedback("partial_found", Cardinality(correct_found),
                              total_correct, Labelled(correct_found, qd))>>
              ELSE <<>>)
             \o
             (IF incorrect_found # {}
              THEN <<Feedback("incorrectly_identified", Cardinality(incorrect_found),
                              0, Labelled(incorrect_found, qd))>>
              ELSE <<>>)
             \o
             (IF missed # {}
              THEN <<Feedback("missed", Cardinality(missed), 0, Labelled(missed, qd))>>
              ELSE <<>>)

\* evaluate_answer, from the parsed answer (student_exists, student_positions)
\* on: the score in hundredths of a point and the feedback.
evaluate_answer(student_exists, student_positions, ca, qd) ==
    LET correct_exists == ca.exists
        correct_positions == ToSet(ca.equilibria)
        total_correct == Cardinality(correct_positions)
        existence == existence_score(student_exists, correct_exists)
    IN  IF correct_exists
        THEN [score |-> RoundHalfEven(
                            100 * (existence * total_correct
                                   + position_score(ToSet(student_positions), correct_positions)),
                            total_correct),
              feedback |-> <<existence_feedback(student_exists, correct_exists)>>
                           \o position_feedback(ToSet(student_positions), correct_positions, qd)]
        ELSE [score |-> 100 * existence,
              feedback |-> <<existence_feedback(student_exists, correct_exists)>>]

\* The lists of at most n positions of an instance: what _extract_positions
\* can return, a list of index pairs of the instance's labels.
RECURSIVE PositionLists(_, _)
PositionLists(cells, n) ==
    IF n = 0 THEN {<<>>}
    ELSE LET shorter == PositionLists(cells, n - 1)
         IN  shorter \cup {Append(l, c) : l \in shorter, c \in cells}

(***************************************************************************)
(* The generator.  A random choice is the set of the values it can return. *)
(***************************************************************************)
\* _get_default_rows(difficulty)
get_default_rows(difficulty) ==
    IF difficulty = "easy" THEN {2}
    ELSE IF difficulty = "medium" THEN {2, 3}
    ELSE {3, 4}

\* _get_default_cols(difficulty)
get_default_cols(difficulty) ==
    IF difficulty = "easy" THEN {2}
    ELSE IF difficulty = "medium" THEN {2, 3}
    ELSE {3, 4}

\* kwargs.get(key) or default: None and 0 are falsy.
GetOr(kwargs, key, defaults) ==
    IF key \in DOMAIN kwargs /\ kwargs[key] # 0 THEN {kwargs[key]} ELSE defaults

\* random.randint(a, b); it raises ValueError when a > b, the empty choice.
randint(a, b) == a .. b

\* The payoffs are drawn from one more value, max_payoff + 1.
generate_random_matrix_wide(rows, cols, min_payoff, max_payoff) ==
    [Cells(rows, cols) -> randint(min_payoff, max_payoff + 1)
                              \X randint(min_payoff, max_payoff + 1)]

\* _generate_random_matrix(rows, cols, min_payoff, max_payoff): the matrices
\* it can return; none when randint raises on the first cell.
generate_random_matrix(rows, cols, min_payoff, max_payoff) ==
    [Cells(rows, cols) -> randint(min_payoff, max_payoff) \X randint(min_payoff, max_payoff)]

\* The rows, cols, min_payoff and max_payoff of generate_question.
rows_of(req) == GetOr(req.kwargs, "rows", get_default_rows(req.difficulty))

cols_of(req) == GetOr(req.kwargs, "cols", get_default_cols(req.difficulty))

min_payoff_of(req) == Get(req.kwargs, "min_payoff", 0)

max_payoff_of(req) == Get(req.kwargs, "max_payoff", 10)

(***************************************************************************)
(* The test service (src/services/test_service.py).  A database is the set *)
(* of the ids of the stored questions, the set of the stored tests and the *)
(* list of the stored test-question associations in insertion order; the   *)
(* autoincrement id of an association is its place in that list.  A        *)
(* Question object is represented by its id.  A call returns its outcome   *)
(* ("ValueError" raised, "None" returned, or the kind of the value         *)
(* returned, with the value) and the database it leaves.                   *)
(***************************************************************************)
Database(questions, tests, test_questions) ==
    [questions |-> questions, tests |-> tests, test_questions |-> test_questions]

\* len(question_ids) != len(set(question_ids))
HasDuplicates(question_ids) == Len(question_ids) # Cardinality(ToSet(question_ids))

\* order_index counts from 1 instead of 0.
test_question_rows_one_based(test_id, question_ids, next_id) ==
    [k \in 1 .. Len(question_ids) |->
        [id |-> next_id + k - 1, test_id |-> test_id,
         question_id |-> question_ids[k], order_index |-> k]]

\* "for order_index, question_id in enumerate(question_ids)" of create_test:
\* the associations it adds, the first with the id next_id.
test_question_rows(test_id, question_ids, next_id) ==
    [k \in 1 .. Len(question_ids) |->
        [id |-> next_id + k - 1, test_id |-> test_id,
         question_id |-> question_ids[k], order_index |-> k - 1]]

\* create_test(db, title, question_ids), with test_id the id drawn from uuid4.
create_test(database, title, question_ids, test_id) ==
    IF Len(question_ids) = 0
    THEN [outcome |-> "ValueError", db |-> database]
    ELSE IF HasDuplicates(question_ids)
    THEN [outcome |-> "ValueError", db |-> database]
    ELSE IF \E k \in 1 .. Len(question_ids) : question_ids[k] \notin database.questions
    THEN [outcome |-> "None", db |-> database]
    ELSE LET test == [id |-> test_id, title |-> title]
         IN  [outcome |-> "Test", test |-> test,
              db |-> Database(database.questions,
                              database.tests \cup {test},
                              database.test_questions
                                  \o test_question_rows(test_id, question_ids,
                                                        Len(database.test_questions) + 1))]

\* get_test(db, test_id): the tests with this id, none or one.
get_test(database, test_id) == {test \in database.tests : test.id = test_id}

\* order_by(TestQuestion.order_index): the rows by increasing order_index (and
\* by id among rows of the same order_index, which one test never has).
RECURSIVE order_by_order_index(_)
order_by_order_index(rows) ==
    IF rows = {} THEN <<>>
    ELSE LET first == CHOOSE r \in rows :
                          \A o \in rows : \/ r.order_index < o.order_index
                                          \/ r.order_index = o.order_index /\ r.id <= o.id
         IN  <<first>> \o order_by_order_index(rows \ {first})

\* The loop "for tq in test_questions" of get_test_questions: the questions
\* that are stored, in the order of the rows.
RECURSIVE questions_of(_, _)
questions_of(database, rows) ==
    IF rows = <<>> THEN <<>>
    ELSE (IF Head(rows).question_id \in database.questions
          THEN <<Head(rows).question_id>> ELSE <<>>)
         \o questions_of(database, Tail(rows))

\* get_test_questions(db, test_id)
get_test_questions(database, test_id) ==
    IF get_test(database, test_id) = {}
    THEN [outcome |-> "None"]
    ELSE [outcome |-> "questions",
          questions |-> questions_of(database,
                            order_by_order_index({row \in ToSet(database.test_questions) :
                                                      row.test_id = test_id}))]

(***************************************************************************)
(* Text.  A text is a string; its characters are read with SubSeq.  The    *)
(* model's texts are ASCII.                                                *)
(***************************************************************************)
\* The character of text at position p (1-based), "" outside the text.
CharAt(text, p) == IF p >= 1 /\ p <= Len(text) THEN SubSeq(text, p, p) ELSE ""

UpperLetters == "ABCDEFGHIJKLMNOPQRSTUVWXYZ"

LowerLetters == "abcdefghijklmnopqrstuvwxyz"

Digits == "0123456789"

\* The set of the characters of a string.
CharsOf(str) == {SubSeq(str, k, k) : k \in 1 .. Len(str)}

\* \w of the re module: letters, digits and the underscore.
WordChars == CharsOf(UpperLetters) \cup CharsOf(LowerLetters) \cup CharsOf(Digits) \cup {"_"}

\* \s of the re module.
SpaceChars == {" ", "\t", "\n", "\r", "\f"}

\* str.lower() and str.upper() of one character.
LowerChar(c) ==
    IF c \in CharsOf(UpperLetters)
    THEN LET k == CHOOSE k \in 1 .. 26 : SubSeq(UpperLetters, k, k) = c
         IN  SubSeq(LowerLetters, k, k)
    ELSE c

UpperChar(c) ==
    IF c \in CharsOf(LowerLetters)
    THEN LET k == CHOOSE k \in 1 .. 26 : SubSeq(LowerLetters, k, k) = c
         IN  SubSeq(UpperLetters, k, k)
    ELSE c

\* str.lower(), str.upper(): character by character, the text being halved.
RECURSIVE Lower(_)
Lower(text) ==
    IF text = "" THEN ""
    ELSE IF Len(text) = 1 THEN LowerChar(text)
    ELSE Lower(SubSeq(text, 1, Len(text) \div 2))
             \o Lower(SubSeq(text, Len(text) \div 2 + 1, Len(text)))

RECURSIVE Upper(_)
Upper(text) ==
    IF text = "" THEN ""
    ELSE IF Len(text) = 1 THEN UpperChar(text)
    ELSE Upper(SubSeq(text, 1, Len(text) \div 2))
             \o Upper(SubSeq(text, Len(text) \div 2 + 1, Len(text)))

\* str.strip()
RECURSIVE Strip(_)
Strip(text) ==
    IF text = "" THEN ""
    ELSE IF SubSeq(text, 1, 1) \in SpaceChars THEN Strip(SubSeq(text, 2, Len(text)))
    ELSE IF SubSeq(text, Len(text), Len(text)) \in SpaceChars
         THEN Strip(SubSeq(text, 1, Len(text) - 1))
    ELSE text

\* str.startswith(prefix)
StartsWith(text, prefix) ==
    Len(prefix) <= Len(text) /\ SubSeq(text, 1, Len(prefix)) = prefix

(***************************************************************************)
(* Regular expressions, as far as the patterns of the source need them.    *)
(* A pattern is a tree; RegexEnds(r, text, p) is the set of the positions  *)
(* at which a match of r that starts at p can end, so re.search(r, text)   *)
(* succeeds exactly when some RegexEnds(r, text, p) is not empty.          *)
(***************************************************************************)
\* A literal string.
Lit(str) == [op |-> "lit", str |-> str]

\* r1 r2 ... rn
Cat(rs) == [op |-> "cat", rs |-> rs]

\* (?:r1|r2|...|rn)
Alt(rs) == [op |-> "alt", rs |-> rs]

\* (?:r)?
Opt(r) == [op |-> "opt", rs |-> <<r>>]

\* \s+ and \s*
Spaces1 == [op |-> "spaces1"]

Spaces0 == [op |-> "spaces0"]

\* \b
WordBoundary == [op |-> "boundary"]

\* ^
LineStart == [op |-> "start"]

\* The ends of the runs of white space that start at p (p itself included).
SpaceRunEnds(text, p) ==
    {q \in p .. (Len(text) + 1) : \A k \in p .. (q - 1) : CharAt(text, k) \in SpaceChars}

RECURSIVE RegexEnds(_, _, _)
RECURSIVE CatEnds(_, _, _, _)
RegexEnds(r, text, p) ==
    CASE r.op = "lit" ->
            IF p + Len(r.str) - 1 <= Len(text) /\ SubSeq(text, p, p + Len(r.str) - 1) = r.str
            THEN {p + Len(r.str)}
            ELSE {}
      [] r.op = "cat" -> CatEnds(r.rs, 1, text, {p})
      [] r.op = "alt" -> UNION {RegexEnds(r.rs[k], text, p) : k \in 1 .. Len(r.rs)}
      [] r.op = "opt" -> {p} \cup RegexEnds(r.rs[1], text, p)
      [] r.op = "spaces0" -> SpaceRunEnds(text, p)
      [] r.op = "spaces1" -> SpaceRunEnds(text, p) \ {p}
      [] r.op = "boundary" ->
            IF (CharAt(text, p - 1) \in WordChars) # (CharAt(text, p) \in WordChars)
            THEN {p}
            ELSE {}
      [] r.op = "start" -> IF p = 1 THEN {p} ELSE {}

\* The ends of the matches of rs[k], rs[k+1], ... that start at a position of ps.
CatEnds(rs, k, text, ps) ==
    IF k > Len(rs) \/ ps = {} THEN ps
    ELSE CatEnds(rs, k + 1, text, UNION {RegexEnds(rs[k], text, p) : p \in ps})

\* re.search(r, text) and re.match(r, text), as truth values.
re_search(r, text) == \E p \in 1 .. (Len(text) + 1) : RegexEnds(r, text, p) # {}

re_match(r, text) == RegexEnds(r, text, 1) # {}

(***************************************************************************)
(* The answer interpreter.                                                 *)
(***************************************************************************)
\* \bword\b
Word(w) == Cat(<<WordBoundary, Lit(w), WordBoundary>>)

\* equilibrium_keywords of _extract_existence_claim
equilibrium_keywords ==
    << Word("equilibrium"),
       Word("equilibria"),
       Word("nash"),
       Cat(<<WordBoundary, Lit("strategy"), Spaces1, Lit("profile"), WordBoundary>>) >>

\* existence_keywords of _extract_existence_claim
existence_keywords ==
    << Cat(<<WordBoundary, Lit("exist"), Opt(Lit("s")), WordBoundary>>),
       Cat(<<WordBoundary, Lit("there"), Spaces1,
             Alt(<<Lit("is"), Lit("are"), Lit("isn't"), Lit("aren't")>>), WordBoundary>>),
       Word("yes"),
       Word("no"),
       Word("none"),
       Word("found"),
       Word("identified") >>

\* any(re.search(kw, text) for kw in keywords)
AnySearch(keywords, text) ==
    \E k \in 1 .. Len(keywords) : re_search(keywords[k], text)

\* _extract_existence_claim(answer_lower)
extract_existence_claim(answer_lower) ==
    IF AnySearch(equilibrium_keywords, answer_lower) THEN "equilibrium_mentioned"
    ELSE IF AnySearch(existence_keywords, answer_lower) THEN "equilibrium_mentioned"
    ELSE None

\* equilibri(?:um|a)
Equilibri == Cat(<<Lit("equilibri"), Alt(<<Lit("um"), Lit("a")>>)>>)

\* The table without its first row, "No" at the start of the sentence.
negation_patterns_without_leading_no ==
    << <<Cat(<<WordBoundary, Lit("there"), Spaces1, Alt(<<Lit("is"), Lit("are")>>),
               Spaces1, Lit("no"), WordBoundary>>), 10>>,
       <<Cat(<<WordBoundary, Lit("there"), Spaces1, Alt(<<Lit("isn't"), Lit("aren't")>>),
               WordBoundary>>), 10>>,
       <<Cat(<<WordBoundary, Lit("do"), Opt(Lit("es")), Lit("n't"), Spaces1,
               Lit("exist"), WordBoundary>>), 9>>,
       <<Cat(<<WordBoundary, Lit("don't"), Spaces1, Lit("exist"), WordBoundary>>), 9>>,
       <<Cat(<<WordBoundary, Lit("not"), Spaces1, Lit("exist"), WordBoundary>>), 9>>,
       <<Cat(<<WordBoundary, Lit("cannot"), Spaces1, Alt(<<Lit("find"), Lit("be")>>),
               WordBoundary>>), 8>>,
       <<Cat(<<WordBoundary, Lit("can't"), Spaces1, Alt(<<Lit("find"), Lit("be")>>),
               WordBoundary>>), 8>>,
       <<Cat(<<WordBoundary, Lit("no"), Spaces1, Opt(Cat(<<Lit("pure"), Spaces1>>)),
               Opt(Cat(<<Lit("nash"), Spaces1>>)), Equilibri, WordBoundary>>), 9>>,
       <<Word("none"), 8>>,
       <<Word("neither"), 7>>,
       <<Cat(<<WordBoundary, Lit("zero"), Spaces1, Lit("equilibri")>>), 8>> >>

\* negation_patterns of _detect_negation: <<pattern, weight>>
negation_patterns ==
    << <<Cat(<<LineStart, Spaces0, Lit("no"), WordBoundary>>), 10>>,
       <<Cat(<<WordBoundary, Lit("there"), Spaces1, Alt(<<Lit("is"), Lit("are")>>),
               Spaces1, Lit("no"), WordBoundary>>), 10>>,
       <<Cat(<<WordBoundary, Lit("there"), Spaces1, Alt(<<Lit("isn't"), Lit("aren't")>>),
               WordBoundary>>), 10>>,
       <<Cat(<<WordBoundary, Lit("do"), Opt(Lit("es")), Lit("n't"), Spaces1,
               Lit("exist"), WordBoundary>>), 9>>,
       <<Cat(<<WordBoundary, Lit("don't"), Spaces1, Lit("exist"), WordBoundary>>), 9>>,
       <<Cat(<<WordBoundary, Lit("not"), Spaces1, Lit("exist"), WordBoundary>>), 9>>,
       <<Cat(<<WordBoundary, Lit("cannot"), Spaces1, Alt(<<Lit("find"), Lit("be")>>),
               WordBoundary>>), 8>>,
       <<Cat(<<WordBoundary, Lit("can't"), Spaces1, Alt(<<Lit("find"), Lit("be")>>),
               WordBoundary>>), 8>>,
       <<Cat(<<WordBoundary, Lit("no"), Spaces1, Opt(Cat(<<Lit("pure"), Spaces1>>)),
               Opt(Cat(<<Lit("nash"), Spaces1>>)), Equilibri, WordBoundary>>), 9>>,
       <<Word("none"), 8>>,
       <<Word("neither"), 7>>,
       <<Cat(<<WordBoundary, Lit("zero"), Spaces1, Lit("equilibri")>>), 8>> >>

\* affirmation_patterns of _detect_negation: <<pattern, weight>>
affirmation_patterns ==
    << <<Cat(<<WordBoundary, Equilibri, Spaces1, Opt(Cat(<<Lit("does"), Spaces1>>)),
               Lit("exist"), Opt(Lit("s")), WordBoundary>>), 10>>,
       <<Cat(<<WordBoundary, Lit("there"), Spaces1, Alt(<<Lit("is"), Lit("are")>>), Spaces1,
               Alt(<<Lit("a"), Lit("an"), Lit("one"), Lit("two"), Lit("equilibri")>>)>>), 10>>,
       <<Cat(<<WordBoundary, Lit("exist"), Opt(Lit("s")), Spaces1, Lit("at"),
               WordBoundary>>), 9>>,
       <<Cat(<<WordBoundary, Lit("exist"), Opt(Lit("s")), WordBoundary>>), 7>>,
       <<Cat(<<WordBoundary, Alt(<<Lit("found"), Lit("identified")>>), Spaces1,
               Alt(<<Lit("a"), Lit("an"), Lit("equilibri")>>)>>), 8>>,
       <<Cat(<<WordBoundary, Lit("has"), Spaces1,
               Alt(<<Lit("a"), Lit("an"), Lit("equilibri")>>)>>), 7>> >>

\* sum(weight for pattern, weight in patterns if re.search(pattern, text)),
\* over the rows k, k+1, ... of the table.
RECURSIVE weighted_score(_, _, _)
weighted_score(patterns, k, text) ==
    IF k > Len(patterns) THEN 0
    ELSE (IF re_search(patterns[k][1], text) THEN patterns[k][2] ELSE 0)
         + weighted_score(patterns, k + 1, text)

\* The leading "yes" does not short-circuit: the sums always decide.
detect_negation_sums_only(answer_lower) ==
    weighted_score(negation_patterns, 1, answer_lower)
        > weighted_score(affirmation_patterns, 1, answer_lower)

\* _detect_negation(answer_lower)
detect_negation(answer_lower) ==
    IF re_match(Cat(<<LineStart, Spaces0, Lit("yes"), WordBoundary>>), answer_lower)
    THEN FALSE
    ELSE weighted_score(negation_patterns, 1, answer_lower)
             > weighted_score(affirmation_patterns, 1, answer_lower)

\* The index is 1-based.
ListIndexOneBased(list, x) ==
    IF \E k \in 1 .. Len(list) : list[k] = x
    THEN CHOOSE k \in 1 .. Len(list) : list[k] = x /\ \A l \in 1 .. (k - 1) : list[l] # x
    ELSE -1

\* list.index(x): the first index (0-based) of x, -1 for ValueError.
ListIndex(list, x) ==
    IF \E k \in 1 .. Len(list) : list[k] = x
    THEN (CHOOSE k \in 1 .. Len(list) : list[k] = x /\ \A l \in 1 .. (k - 1) : list[l] # x) - 1
    ELSE -1

\* The pattern \((row)\s*,\s*(col)\) of _extract_positions for the a-th row
\* label and the b-th column label, for the lowercased text (re.IGNORECASE).
pair_pattern(row_labels, col_labels, a, b) ==
    Cat(<<Lit("("), Lit(Lower(row_labels[a])), Spaces0, Lit(","), Spaces0,
          Lit(Lower(col_labels[b])), Lit(")")>>)

\* The match of the pattern of _extract_positions at position p, if any: the
\* alternatives of a group are tried in the order of the label list.  (The
\* ends of the matches of one pair of labels coincide unless a label contains
\* white space or a comma.)
pair_match(text, p, row_labels, col_labels) ==
    LET lowered == Lower(text)
        ends(a, b) == RegexEnds(pair_pattern(row_labels, col_labels, a, b), lowered, p)
        rows_matching == {a \in 1 .. Len(row_labels) :
                              \E b \in 1 .. Len(col_labels) : ends(a, b) # {}}
    IN  IF CharAt(text, p) # "(" \/ rows_matching = {}
        THEN [found |-> FALSE]
        ELSE LET a == CHOOSE a \in rows_matching : \A a2 \in rows_matching : a <= a2
                 cols_matching == {b \in 1 .. Len(col_labels) : ends(a, b) # {}}
                 b == CHOOSE b \in cols_matching : \A b2 \in cols_matching : b <= b2
                 end == CHOOSE e \in ends(a, b) : \A e2 \in ends(a, b) : e >= e2
             IN  [found |-> TRUE,
                  row_label |-> SubSeq(text, p + 1, p + Len(row_labels[a])),
                  col_label |-> SubSeq(text, end - 1 - Len(col_labels[b]), end - 2),
                  end |-> end]

\* The first "(" of the text at or after position p, Len(text) + 1 if none:
\* a match of the pattern can only start there.
next_open(text, p) ==
    LET opens == {q \in p .. Len(text) : CharAt(text, q) = "("}
    IN  IF opens = {} THEN Len(text) + 1
        ELSE CHOOSE q \in opens : \A q2 \in opens : q <= q2

\* re.findall and the loop over its matches in _extract_positions, from
\* position p of the text on.
RECURSIVE extract_from(_, _, _, _, _)
extract_from(text, p, row_labels, col_labels, positions) ==
    IF next_open(text, p) > Len(text) THEN positions
    ELSE LET m == pair_match(text, next_open(text, p), row_labels, col_labels)
         IN  IF ~m.found
             THEN extract_from(text, next_open(text, p) + 1, row_labels, col_labels,
                               positions)
             ELSE LET row_idx == ListIndex(row_labels, Upper(m.row_label))
                      col_idx == ListIndex(col_labels, Upper(m.col_label))
                  IN  extract_from(text, m.end, row_labels, col_labels,
                                   IF row_idx >= 0 /\ col_idx >= 0
                                   THEN Append(positions, <<row_idx, col_idx>>)
                                   ELSE positions)

\* _extract_positions(student_answer, row_labels, col_labels)
extract_positions(text, row_labels, col_labels) ==
    IF row_labels = <<>> \/ col_labels = <<>> THEN <<>>
    ELSE extract_from(text, 1, row_labels, col_labels, <<>>)

\* Without a clear claim the existence defaults to True.
parse_student_answer_default_true(text, qd) ==
    LET answer_lower == Strip(Lower(text))
        claim_type == extract_existence_claim(answer_lower)
    IN  [claim_type |-> claim_type,
         exists |-> IF claim_type = "equilibrium_mentioned"
                    THEN ~detect_negation(answer_lower)
                    ELSE IF claim_type = "direct_answer"
                    THEN StartsWith(answer_lower, "yes")
                    ELSE TRUE,
         positions |-> extract_positions(text, qd.row_labels, qd.col_labels)]

\* _parse_student_answer(student_answer, question_data), with the claim type
\* of stage 1 beside the two values returned.
parse_student_answer(text, qd) ==
    LET answer_lower == Strip(Lower(text))
        claim_type == extract_existence_claim(answer_lower)
    IN  [claim_type |-> claim_type,
         exists |-> IF claim_type = "equilibrium_mentioned"
                    THEN ~detect_negation(answer_lower)
                    ELSE IF claim_type = "direct_answer"
                    THEN StartsWith(answer_lower, "yes")
                    ELSE FALSE,
         positions |-> extract_positions(text, qd.row_labels, qd.col_labels)]

(***************************************************************************)
(* The explanations (answer_question).  The concise explanation is a text. *)
(* The detailed explanation is kept as the list of its lines before they   *)
(* are joined; a line is the tag of its fixed wording with the labels and  *)
(* the payoffs interpolated into it.                                       *)
(***************************************************************************)
\* ', '.join(list)
RECURSIVE Join(_)
Join(list) ==
    IF list = <<>> THEN ""
    ELSE IF Len(list) = 1 THEN list[1]
    ELSE list[1] \o ", " \o Join(Tail(list))

\* The pair is written without its parentheses.
labelled_pair_bare(row_label, col_label) == row_label \o ", " \o col_label

\* f"({row_labels[r]}, {col_labels[c]})"
labelled_pair(row_label, col_label) == "(" \o row_label \o ", " \o col_label \o ")"

\* eq_list = [f"({row_labels[r]}, {col_labels[c]})" for r, c in equilibria]
eq_list(equilibria, row_labels, col_labels) ==
    [k \in 1 .. Len(equilibria) |->
        labelled_pair(row_labels[equilibria[k][1] + 1], col_labels[equilibria[k][2] + 1])]

\* The concise explanation.
concise_explanation(equilibria, row_labels, col_labels) ==
    IF Len(equilibria) > 0
    THEN "Yes, pure Nash equilibrium exists at: "
             \o Join(eq_list(equilibria, row_labels, col_labels))
    ELSE "No pure Nash equilibrium exists in this game."

\* One line of the detailed explanation.
Line(tag, labels, payoffs) == [tag |-> tag, labels |-> labels, payoffs |-> payoffs]

\* An alternative row counts as better when it pays at least as much.
RECURSIVE p1_alternative_nonstrict(_, _, _, _, _)
p1_alternative_nonstrict(matrix, rows, i, j, alt_i) ==
    IF alt_i >= rows THEN rows
    ELSE IF alt_i # i /\ matrix[<<alt_i, j>>][1] >= matrix[<<i, j>>][1] THEN alt_i
    ELSE p1_alternative_nonstrict(matrix, rows, i, j, alt_i + 1)

\* The loop "for alt_i in range(rows)" of the detailed explanation, from alt_i
\* on: the row at which it breaks, or rows when it runs to its end.
RECURSIVE p1_alternative(_, _, _, _, _)
p1_alternative(matrix, rows, i, j, alt_i) ==
    IF alt_i >= rows THEN rows
    ELSE IF alt_i # i /\ matrix[<<alt_i, j>>][1] > matrix[<<i, j>>][1] THEN alt_i
    ELSE p1_alternative(matrix, rows, i, j, alt_i + 1)

\* The loop "for alt_j in range(cols)": the column at which it breaks, or cols.
RECURSIVE p2_alternative(_, _, _, _, _)
p2_alternative(matrix, cols, i, j, alt_j) ==
    IF alt_j >= cols THEN cols
    ELSE IF alt_j # j /\ matrix[<<i, alt_j>>][2] > matrix[<<i, j>>][2] THEN alt_j
    ELSE p2_alternative(matrix, cols, i, j, alt_j + 1)

\* The lines of the detailed explanation for the cell (i, j).
cell_lines(qd, i, j) ==
    LET alt_i == p1_alternative(qd.matrix, qd.rows, i, j, 0)
        alt_j == p2_alternative(qd.matrix, qd.cols, i, j, 0)
        p1_best == alt_i >= qd.rows
        p2_best == alt_j >= qd.cols
        row_label == qd.row_labels[i + 1]
        col_label == qd.col_labels[j + 1]
    IN  << Line("cell", <<row_label, col_label>>, qd.matrix[<<i, j>>]),
           IF p1_best
           THEN Line("p1_best", <<>>, <<>>)
           ELSE Line("p1_not_best", <<qd.row_labels[alt_i + 1]>>,
                     <<qd.matrix[<<alt_i, j>>][1]>>),
           IF p2_best
           THEN Line("p2_best", <<>>, <<>>)
           ELSE Line("p2_not_best", <<qd.col_labels[alt_j + 1]>>,
                     <<qd.matrix[<<i, alt_j>>][2]>>),
           IF p1_best /\ p2_best
           THEN Line("nash", <<row_label, col_label>>, <<>>)
           ELSE Line("not_nash", <<>>, <<>>),
           Line("blank", <<>>, <<>>) >>

\* The two loops over the cells of the detailed explanation, from (i, j) on.
RECURSIVE cells_from(_, _, _)
cells_from(qd, i, j) ==
    IF i >= qd.rows THEN <<>>
    ELSE IF j >= qd.cols THEN cells_from(qd, i + 1, 0)
    ELSE cell_lines(qd, i, j) \o cells_from(qd, i, j + 1)

\* The detailed explanation.
detailed_explanation(qd, equilibria) ==
    << Line("title", <<>>, <<>>), Line("rule", <<>>, <<>>), Line("blank", <<>>, <<>>),
       Line("definition_1", <<>>, <<>>), Line("definition_2", <<>>, <<>>),
       Line("checking", <<>>, <<>>) >>
    \o cells_from(qd, 0, 0)
    \o << Line("rule", <<>>, <<>>), Line("conclusion", <<>>, <<>>),
          IF Len(equilibria) > 0
          THEN Line("summary_exists", eq_list(equilibria, qd.row_labels, qd.col_labels), <<>>)
          ELSE Line("summary_none", <<>>, <<>>) >>

\* answer_question(question_data, detail_level)
answer_question(qd, detail_level) ==
    LET equilibria == find_nash_equilibria(qd.matrix, qd.rows, qd.cols)
    IN  IF detail_level = "concise"
        THEN concise_explanation(equilibria, qd.row_labels, qd.col_labels)
        ELSE detailed_explanation(qd, equilibria)

(***************************************************************************)
(* The specification of the solver: a question is given, its answer is     *)
(* computed.                                                               *)
(***************************************************************************)
InitCells(n) ==
    /\ pc = "question"
    /\ request = None
    /\ \/ \E s \in Shapes(n) :
            \E m \in [Cells(s[1], s[2]) -> PayoffValues \X PayoffValues] :
                question_data = QuestionData(s[1], s[2], m,
                                             generate_labels(s[1], "row"),
                                             generate_labels(s[2], "col"))
       \/ question_data \in {CoordinationGame, MatchingPennies}
    /\ correct_answer = None
    /\ student_answer = None
    /\ student = None
    /\ result = None
    /\ explanation = None
    /\ db = None
    /\ response = None

Init == InitCells(MaxCells)

GenerateAnswer ==
    /\ pc = "question"
    /\ correct_answer' = generate_answer(question_data)
    /\ pc' = "answered"
    /\ UNCHANGED <<request, question_data, student_answer, student, result>>
    /\ UNCHANGED <<explanation, db, response>>

Next == GenerateAnswer

Spec == Init /\ [][Next]_vars

(***************************************************************************)
(* The specification of grading: a question is given, its answer is        *)
(* computed, and student answers are evaluated against it.                 *)
(***************************************************************************)
InitGrade == InitCells(MaxGradedCells)

EvaluateAnswer ==
    /\ pc = "answered"
    /\ \E student_exists \in BOOLEAN :
         \E student_positions \in
                PositionLists(Cells(question_data.rows, question_data.cols), MaxClaimed) :
            /\ student' = [exists |-> student_exists, positions |-> student_positions]
            /\ result' = evaluate_answer(student_exists, student_positions,
                                         correct_answer, question_data)
    /\ pc' = "graded"
    /\ UNCHANGED <<request, question_data, correct_answer, student_answer>>
    /\ UNCHANGED <<explanation, db, response>>

NextGrade ==
    \/ GenerateAnswer
    \/ EvaluateAnswer

SpecGrade == InitGrade /\ [][NextGrade]_vars

(***************************************************************************)
(* The specification of the interpreter: an answer text is given for a     *)
(* question with its labels, and it is parsed.                             *)
(***************************************************************************)
\* The phrases the enumerated answer texts are made of.
Phrases ==
    {"yes", "No", "none", "nash", "equilibrium", "exists", "don't exist", "doesn't exist",
     "at", "there is no", "hello", "(U, L)", "(m,c)", "(Top, Left)"}

\* The two answer texts of the spec's examples.
NegationExample == "No pure Nash equilibrium exists in this game."

AffirmationExample == "Yes, equilibrium exists at (U, L)"

\* The texts of at most n phrases, separated by one space.
RECURSIVE PhraseTexts(_)
PhraseTexts(n) ==
    IF n = 0 THEN {""}
    ELSE LET shorter == PhraseTexts(n - 1)
         IN  shorter \cup {IF t = "" THEN ph ELSE t \o " " \o ph : t \in shorter, ph \in Phrases}

AnswerTexts == PhraseTexts(MaxPhrases) \cup {NegationExample, AffirmationExample}

\* The label lists of the questions whose answers are parsed: the generated
\* labels of a 3x3 game, and labels that are not in upper case.
LabelLists ==
    { <<generate_labels(3, "row"), generate_labels(3, "col")>>,
      <<<<"Top", "Bottom">>, <<"Left", "Right">>>> }

InitParse ==
    /\ pc = "answer"
    /\ request = None
    /\ student_answer \in AnswerTexts
    /\ \E ls \in LabelLists :
           question_data = QuestionData(Len(ls[1]), Len(ls[2]),
                                        [c \in Cells(Len(ls[1]), Len(ls[2])) |-> <<0, 0>>],
                                        ls[1], ls[2])
    /\ correct_answer = None
    /\ student = None
    /\ result = None
    /\ explanation = None
    /\ db = None
    /\ response = None

ParseStudentAnswer ==
    /\ pc = "answer"
    /\ student' = parse_student_answer(student_answer, question_data)
    /\ pc' = "parsed"
    /\ UNCHANGED <<request, question_data, correct_answer, student_answer, result>>
    /\ UNCHANGED <<explanation, db, response>>

NextParse == ParseStudentAnswer

SpecParse == InitParse /\ [][NextParse]_vars

(***************************************************************************)
(* The claims about the solver, checked under Spec.                        *)
(***************************************************************************)
(* The specification of the generator: a request (a difficulty and the     *)
(* keyword arguments of generate_question) is given, and generate_question *)
(* either returns a question with its answer or raises.                    *)
(***************************************************************************)
Difficulties == {"easy", "medium", "hard"}

KwargKeys == {"rows", "cols", "min_payoff", "max_payoff"}

\* The rows and cols overrides, and the payoff limits, of the requests.
DimensionOverrides == -1 .. MaxOverride

PayoffLimits == {0, 1, 10}

\* The keyword arguments: any subset of the four keys may be given.
Kwargs ==
    UNION {{k \in [D -> DimensionOverrides \cup PayoffLimits] :
               \A key \in D : IF key \in {"rows", "cols"}
                              THEN k[key] \in DimensionOverrides
                              ELSE k[key] \in PayoffLimits} : D \in SUBSET KwargKeys}

\* The number of matrices the request can draw for the dimensions rows, cols,
\* counted up to MaxMatrices + 1.
Draws(req, rows, cols) ==
    CappedPow(Cardinality(randint(min_payoff_of(req), max_payoff_of(req))),
              2 * Cardinality(Cells(rows, cols)), MaxMatrices + 1)

Requests ==
    {req \in [difficulty : Difficulties, kwargs : Kwargs] :
        \A rows \in rows_of(req), cols \in cols_of(req) : Draws(req, rows, cols) <= MaxMatrices}

InitGenerate ==
    /\ pc = "request"
    /\ request \in Requests
    /\ question_data = None
    /\ correct_answer = None
    /\ student_answer = None
    /\ student = None
    /\ result = None
    /\ explanation = None
    /\ db = None
    /\ response = None

\* generate_question(difficulty, **kwargs)
GenerateQuestion ==
    /\ pc = "request"
    /\ \E rows \in rows_of(request), cols \in cols_of(request) :
         LET matrices == generate_random_matrix(rows, cols, min_payoff_of(request),
                                                max_payoff_of(request))
         IN  \/ /\ matrices = {}
                /\ pc' = "error"
                /\ result' = "ValueError"
                /\ UNCHANGED <<question_data, correct_answer>>
             \/ \E matrix \in matrices :
                  LET qd == QuestionData(rows, cols, matrix,
                                         generate_labels(rows, "row"),
                                         generate_labels(cols, "col"))
                  IN  /\ question_data' = qd
                      /\ correct_answer' = generate_answer(qd)
                      /\ pc' = "generated"
                      /\ UNCHANGED result
    /\ UNCHANGED <<request, student_answer, student>>
    /\ UNCHANGED <<explanation, db, response>>

NextGenerate == GenerateQuestion

SpecGenerate == InitGenerate /\ [][NextGenerate]_vars

(***************************************************************************)
(* The specification of the test service: questions are stored, tests are  *)
(* created from lists of question ids and their questions are read.  The   *)
(* id drawn from uuid4 is taken to be new: a draw that repeats the id of a *)
(* stored test is left out.                                                *)
(***************************************************************************)
QuestionIds == {"nash_001", "nash_002", "nash_003"}

TestIds == {"test_0000000a", "test_0000000b"}

Titles == {"Quiz"}

\* The lists of at most n question ids.
RECURSIVE QuestionIdLists(_)
QuestionIdLists(n) ==
    IF n = 0 THEN {<<>>}
    ELSE LET shorter == QuestionIdLists(n - 1)
         IN  shorter \cup {Append(l, q) : l \in shorter, q \in QuestionIds}

InitTest ==
    /\ pc = "serving"
    /\ \E questions \in SUBSET QuestionIds : db = Database(questions, {}, <<>>)
    /\ response = [op |-> "startup"]
    /\ request = None
    /\ question_data = None
    /\ correct_answer = None
    /\ explanation = None
    /\ student_answer = None
    /\ student = None
    /\ result = None

CreateTest ==
    /\ pc = "serving"
    /\ \E title \in Titles, question_ids \in QuestionIdLists(MaxListed),
          test_id \in TestIds \ {test.id : test \in db.tests} :
         LET r == create_test(db, title, question_ids, test_id)
         IN  /\ db' = r.db
             /\ response' = [op |-> "create_test", title |-> title,
                             question_ids |-> question_ids,
                             returned |-> [f \in DOMAIN r \ {"db"} |-> r[f]]]
    /\ UNCHANGED <<pc, request, question_data, correct_answer, explanation,
                   student_answer, student, result>>

GetTestQuestions ==
    /\ pc = "serving"
    /\ \E test_id \in TestIds :
         response' = [op |-> "get_test_questions", test_id |-> test_id,
                      returned |-> get_test_questions(db, test_id)]
    /\ UNCHANGED <<pc, request, question_data, correct_answer, explanation,
                   student_answer, student, result, db>>

NextTest ==
    \/ CreateTest
    \/ GetTestQuestions

SpecTest == InitTest /\ [][NextTest]_vars

(***************************************************************************)
(* The specification of explaining: a question is given, its answer is     *)
(* computed, it is explained, and the concise explanation is handed to     *)
(* evaluate_answer as a student's answer.                                  *)
(***************************************************************************)
\* Questions of four rows or columns, every cell with the same payoffs.
LargeInstances ==
    {QuestionData(s[1], s[2], [c \in Cells(s[1], s[2]) |-> <<p, p>>],
                  generate_labels(s[1], "row"), generate_labels(s[2], "col")) :
         s \in {<<4, 4>>, <<4, 1>>, <<1, 4>>}, p \in PayoffValues}

InitExplain ==
    \/ InitCells(MaxGradedCells)
    \/ /\ pc = "question"
       /\ question_data \in LargeInstances
       /\ request = None
       /\ correct_answer = None
       /\ explanation = None
       /\ student_answer = None
       /\ student = None
       /\ result = None
       /\ db = None
       /\ response = None

AnswerQuestion ==
    /\ pc = "answered"
    /\ \E detail_level \in {"concise", "detailed"} :
         explanation' = [detail_level |-> detail_level,
                         text |-> answer_question(question_data, detail_level)]
    /\ pc' = "explained"
    /\ UNCHANGED <<request, question_data, correct_answer, student_answer, student, result>>
    /\ UNCHANGED <<db, response>>

\* evaluate_answer(student_answer, correct_answer, question_data) with the
\* concise explanation as student_answer.
EvaluateExplanation ==
    /\ pc = "explained"
    /\ explanation.detail_level = "concise"
    /\ student_answer' = explanation.text
    /\ LET parsed == parse_student_answer(explanation.text, question_data)
       IN  /\ student' = parsed
           /\ result' = evaluate_answer(parsed.exists, parsed.positions,
                                        correct_answer, question_data)
    /\ pc' = "graded"
    /\ UNCHANGED <<request, question_data, correct_answer, explanation, db, response>>

NextExplain ==
    \/ GenerateAnswer
    \/ AnswerQuestion
    \/ EvaluateExplanation

SpecExplain == InitExplain /\ [][NextExplain]_vars

(***************************************************************************)
\* The cells of the question, the payoffs of a cell, the cells returned.
AllCells == Cells(question_data.rows, question_data.cols)

Payoff1(c) == question_data.matrix[c][1]

Payoff2(c) == question_data.matrix[c][2]

Returned == ToSet(correct_answer.equilibria)

\* No other row gives player 1 strictly more in the column of c.
NoBetterRow(c) ==
    \A i \in Range(question_data.rows) \ {c[1]} : ~(Payoff1(<<i, c[2]>>) > Payoff1(c))

\* No other column gives player 2 strictly more in the row of c.
NoBetterCol(c) ==
    \A j \in Range(question_data.cols) \ {c[2]} : ~(Payoff2(<<c[1], j>>) > Payoff2(c))

\* C1: the solver returns a cell if and only if no other row has a strictly
\* greater player-1 payoff in its column and no other column has a strictly
\* greater player-2 payoff in its row; it returns nothing but cells.
C1_SolverReturnsExactlyTheEquilibria ==
    pc = "answered" =>
        /\ Returned \subseteq AllCells
        /\ \A c \in AllCells : (c \in Returned) <=> (NoBetterRow(c) /\ NoBetterCol(c))

\* A solved game of at least 2x2 with a returned cell, a cell omitted for
\* player 1 alone and a cell omitted for player 2 alone.
C1_Witness ==
    /\ pc = "answered"
    /\ question_data.rows >= 2
    /\ question_data.cols >= 2
    /\ Returned # {}
    /\ \E c \in AllCells \ Returned : NoBetterCol(c) /\ ~NoBetterRow(c)
    /\ \E c \in AllCells \ Returned : NoBetterRow(c) /\ ~NoBetterCol(c)

\* The player-1 payoff of c is the maximum of its column.
IsColumnMax(c) ==
    \A i \in Range(question_data.rows) : Payoff1(<<i, c[2]>>) <= Payoff1(c)

\* The player-2 payoff of c is the maximum of its row.
IsRowMax(c) ==
    \A j \in Range(question_data.cols) : Payoff2(<<c[1], j>>) <= Payoff2(c)

\* C2: ties never break best-response status: every cell whose player-1
\* payoff equals its column maximum and whose player-2 payoff equals its row
\* maximum is returned, whatever other cells share those maxima; when all
\* cells carry the same payoffs every cell is returned.
C2_TiesKeepBestResponse ==
    pc = "answered" =>
        /\ \A c \in AllCells : (IsColumnMax(c) /\ IsRowMax(c)) => c \in Returned
        /\ (\A c, d \in AllCells : question_data.matrix[c] = question_data.matrix[d])
               => Returned = AllCells

\* A solved game of at least 2x2 whose cells all carry the same payoffs, all
\* of them returned.
C2_Witness ==
    /\ pc = "answered"
    /\ question_data.rows >= 2
    /\ question_data.cols >= 2
    /\ \A c, d \in AllCells : question_data.matrix[c] = question_data.matrix[d]
    /\ Returned = AllCells
    /\ Len(correct_answer.equilibria) = question_data.rows * question_data.cols

\* C3 as stated: for p1 = p2 = [[5,0],[0,0]] the solver returns [(0,0)] only.
C3_OnlyTopLeft ==
    (pc = "answered" /\ question_data = CoordinationGame)
        => correct_answer.equilibria = <<<<0, 0>>>>

\* C3, amended: for p1 = p2 = [[5,0],[0,0]] the solver returns [(0,0), (1,1)]:
\* at (1,1) both players get 0 and the only alternatives, (0,1) for player 1
\* and (1,0) for player 2, give 0 as well, so neither is strictly better.
C3_TopLeftAndBottomRight ==
    (pc = "answered" /\ question_data = CoordinationGame)
        => /\ correct_answer.equilibria = <<<<0, 0>>, <<1, 1>>>>
           /\ correct_answer.exists

\* The instance of C3, with the labels U, D and L, R, solved.
C3_Witness ==
    /\ pc = "answered"
    /\ question_data = CoordinationGame
    /\ question_data.row_labels = <<"U", "D">>
    /\ question_data.col_labels = <<"L", "R">>

\* C4: for matching pennies, p1 = [[1,-1],[-1,1]] and p2 = [[-1,1],[1,-1]],
\* the solver returns exists = false and no position.
C4_MatchingPenniesHasNone ==
    (pc = "answered" /\ question_data = MatchingPennies)
        => /\ correct_answer.exists = FALSE
           /\ correct_answer.equilibria = <<>>

\* Matching pennies, solved.
C4_Witness ==
    /\ pc = "answered"
    /\ question_data = MatchingPennies
    /\ Payoff1(<<0, 0>>) = 1
    /\ Payoff2(<<0, 0>>) = -1

\* a comes before b in row-major order.
RowMajorBefore(a, b) == a[1] < b[1] \/ (a[1] = b[1] /\ a[2] < b[2])

\* C5: the positions are strictly increasing in row-major order, without
\* duplicates, inside [0,rows) x [0,cols), and exists is true exactly when
\* there is a position.
C5_PositionsRowMajor ==
    pc = "answered" =>
        LET e == correct_answer.equilibria
        IN  /\ \A k \in 1 .. (Len(e) - 1) : RowMajorBefore(e[k], e[k + 1])
            /\ \A k, l \in 1 .. Len(e) : k # l => e[k] # e[l]
            /\ \A k \in 1 .. Len(e) :
                   /\ e[k][1] \in 0 .. (question_data.rows - 1)
                   /\ e[k][2] \in 0 .. (question_data.cols - 1)
            /\ correct_answer.exists <=> (Len(e) > 0)

\* A solved game with at least three positions over two rows and two columns,
\* and one with none.
C5_Witness ==
    /\ pc = "answered"
    /\ Len(correct_answer.equilibria) >= 3
    /\ \E c, d \in Returned : c[1] # d[1]
    /\ \E c, d \in Returned : c[2] # d[2]
    /\ Returned # AllCells
    /\ correct_answer.exists

\* The permutations of range(n).
PermutationsOf(n) ==
    {f \in [Range(n) -> Range(n)] : \A a, b \in Range(n) : f[a] = f[b] => a = b}

\* The matrix with row i moved to row rp[i] and column j moved to column cp[j].
Permuted(matrix, rows, cols, rp, cp) ==
    [c \in Cells(rows, cols) |->
        matrix[<<CHOOSE i \in Range(rows) : rp[i] = c[1],
                 CHOOSE j \in Range(cols) : cp[j] = c[2]>>]]

Identity(n) == [k \in Range(n) |-> k]

\* C6: for every permutation of the rows, the positions the solver returns
\* for the permuted instance are, as a set of cells, the original positions
\* with the permutation applied to their row index; the same for every
\* permutation of the columns.  (The list itself is again in row-major order
\* of the permuted instance, C5.)
C6_PermutationInvariance ==
    pc = "answered" =>
        LET rows == question_data.rows
            cols == question_data.cols
        IN  /\ \A rp \in PermutationsOf(rows) :
                 ToSet(find_nash_equilibria(
                           Permuted(question_data.matrix, rows, cols, rp, Identity(cols)),
                           rows, cols))
                 = {<<rp[p[1]], p[2]>> : p \in Returned}
            /\ \A cp \in PermutationsOf(cols) :
                 ToSet(find_nash_equilibria(
                           Permuted(question_data.matrix, rows, cols, Identity(rows), cp),
                           rows, cols))
                 = {<<p[1], cp[p[2]]>> : p \in Returned}

\* A solved game with three rows, or three columns, some but not all of its
\* cells returned, and a permutation that moves the returned cells.
C6_Witness ==
    /\ pc = "answered"
    /\ question_data.rows >= 2
    /\ question_data.cols >= 3
    /\ Returned # {}
    /\ Returned # AllCells
    /\ \E rp \in PermutationsOf(question_data.rows) :
           {<<rp[p[1]], p[2]>> : p \in Returned} # Returned
    /\ \E cp \in PermutationsOf(question_data.cols) :
           /\ \A j \in Range(question_data.cols) : cp[j] # j
           /\ {<<p[1], cp[p[2]]>> : p \in Returned} # Returned

(***************************************************************************)
(* The claims about the scorer, checked under SpecGrade.                   *)
(***************************************************************************)
\* The claimed set S of the graded answer; the correct set C is Returned.
Claimed == ToSet(student.positions)

\* The existence term in points.
ExistenceTerm == IF student.exists = correct_answer.exists THEN 50 ELSE 0

\* |x|
Abs(x) == IF x < 0 THEN -x ELSE x

\* C7: when an equilibrium exists and S is non-empty and differs from C, the
\* score is the existence term plus max(0, base - penalty), with
\* base = (|C n S| / |C|) * 50 and penalty = min((|S \ C| / |C|) * 25, base * 0.5),
\* rounded to 2 decimals (the score is a hundredth nearest to that value);
\* with |C| = 2, one correct and one incorrect position and a correct
\* existence claim it is 62.50.  The three terms are written over the common
\* denominator |C|.
C7_PartialCredit ==
    (pc = "graded" /\ correct_answer.exists /\ Claimed # {} /\ Claimed # Returned) =>
        LET n == Cardinality(Returned)
            k == Cardinality(Returned \cap Claimed)
            f == Cardinality(Claimed \ Returned)
            base == 50 * k
            penalty == Min(25 * f, 25 * k)
            position == Max(0, base - penalty)
            exact == 100 * (ExistenceTerm * n + position)
        IN  /\ 2 * Abs(result.score * n - exact) <= n
            /\ (n = 2 /\ k = 1 /\ f = 1 /\ student.exists) => result.score = 6250

\* The case of the claim: two equilibria, one found and one wrong position,
\* existence affirmed, 62.50 points.
C7_Witness ==
    /\ pc = "graded"
    /\ correct_answer.exists
    /\ Cardinality(Returned) = 2
    /\ Cardinality(Returned \cap Claimed) = 1
    /\ Cardinality(Claimed \ Returned) = 1
    /\ student.exists
    /\ result.score = 6250

\* C8: when an equilibrium exists and S = C, the position term is the full
\* 50 points and the feedback states a perfect match; with existence
\* affirmed the score is 100.00.
C8_PerfectMatch ==
    (pc = "graded" /\ correct_answer.exists /\ Claimed = Returned) =>
        /\ result.score = 100 * (ExistenceTerm + 50)
        /\ Len(result.feedback) = 2
        /\ result.feedback[2].tag = "perfect"
        /\ student.exists => result.score = 10000

\* The case of the claim: S = C = {(0,0)}, existence affirmed, 100.00 points.
C8_Witness ==
    /\ pc = "graded"
    /\ correct_answer.exists
    /\ Returned = {<<0, 0>>}
    /\ Claimed = {<<0, 0>>}
    /\ question_data.rows * question_data.cols > 1
    /\ student.exists
    /\ result.score = 10000

\* C9: when an equilibrium exists and S is empty, the position term is 0 and
\* the feedback says that no positions were provided; with existence
\* affirmed the score is 50.00, whatever |C| is.
C9_NoPositions ==
    (pc = "graded" /\ correct_answer.exists /\ Claimed = {}) =>
        /\ result.score = 100 * ExistenceTerm
        /\ Len(result.feedback) = 2
        /\ result.feedback[2].tag = "no_positions"
        /\ student.exists => result.score = 5000

\* The case of the claim: |C| = 2, existence affirmed, no position, 50.00.
C9_Witness ==
    /\ pc = "graded"
    /\ correct_answer.exists
    /\ Cardinality(Returned) = 2
    /\ student.exists
    /\ student.positions = <<>>
    /\ result.score = 5000

\* C10: when the solution has no equilibrium and the answer says one exists,
\* the score is 0 whatever positions the answer contains.
C10_ExistenceMismatch ==
    (pc = "graded" /\ ~correct_answer.exists /\ student.exists) => result.score = 0

\* A game without equilibrium, an answer affirming one with two positions.
C10_Witness ==
    /\ pc = "graded"
    /\ ~correct_answer.exists
    /\ student.exists
    /\ Cardinality(Claimed) >= 2
    /\ result.score = 0

\* C11: the score of every graded answer lies in the closed range 0 to 100.
\* (Checked for every existence claim and every list of up to MaxClaimed
\* positions of the instance that the interpreter can hand to the scorer.)
C11_ScoreInRange ==
    pc = "graded" => (result.score >= 0 /\ result.score <= 10000)

\* A graded answer with a wrong existence claim, one of three equilibria
\* found and nothing else claimed: 16.67 points.
C11_Witness ==
    /\ pc = "graded"
    /\ Cardinality(Returned) = 3
    /\ Cardinality(Claimed \cap Returned) = 1
    /\ Claimed \subseteq Returned
    /\ ~student.exists
    /\ result.score = 1667

(***************************************************************************)
(* The claims about the interpreter, checked under SpecParse.              *)
(***************************************************************************)
\* The text as the interpreter reads it for the existence claim.
AnswerLower == Strip(Lower(student_answer))

\* The text begins, after optional white space, with the word w.
BeginsWithWord(text, w) ==
    \E k \in 0 .. Len(text) :
        /\ \A i \in 1 .. k : CharAt(text, i) \in SpaceChars
        /\ k + Len(w) <= Len(text)
        /\ SubSeq(text, k + 1, k + Len(w)) = w
        /\ CharAt(text, k + Len(w) + 1) \notin WordChars

\* C12: a text that begins (after optional white space) with the word "yes"
\* is interpreted as affirming existence, whatever negation patterns occur
\* later in the text and whatever their total weight.
C12_LeadingYesAffirms ==
    (pc = "parsed" /\ BeginsWithWord(Lower(student_answer), "yes")) => student.exists = TRUE

\* A parsed text that begins with "yes" and whose negation patterns outweigh
\* its affirmation patterns.
C12_Witness ==
    /\ pc = "parsed"
    /\ BeginsWithWord(Lower(student_answer), "yes")
    /\ weighted_score(negation_patterns, 1, AnswerLower)
           > weighted_score(affirmation_patterns, 1, AnswerLower)
    /\ student.exists = TRUE

\* The negation table as the spec gives it, one row per weight entry:
\* "do(es)?n't exist / don't exist -> 9" and "cannot (find|be) / can't
\* (find|be) -> 8" are one row each.
spec_negation_rows ==
    << <<Cat(<<LineStart, Spaces0, Lit("no"), WordBoundary>>), 10>>,
       <<Cat(<<WordBoundary, Lit("there"), Spaces1, Alt(<<Lit("is"), Lit("are")>>),
               Spaces1, Lit("no"), WordBoundary>>), 10>>,
       <<Cat(<<WordBoundary, Lit("there"), Spaces1, Alt(<<Lit("isn't"), Lit("aren't")>>),
               WordBoundary>>), 10>>,
       <<Alt(<<Cat(<<WordBoundary, Lit("do"), Opt(Lit("es")), Lit("n't"), Spaces1,
                     Lit("exist"), WordBoundary>>),
               Cat(<<WordBoundary, Lit("don't"), Spaces1, Lit("exist"), WordBoundary>>)>>), 9>>,
       <<Cat(<<WordBoundary, Lit("not"), Spaces1, Lit("exist"), WordBoundary>>), 9>>,
       <<Cat(<<WordBoundary, Alt(<<Lit("cannot"), Lit("can't")>>), Spaces1,
               Alt(<<Lit("find"), Lit("be")>>), WordBoundary>>), 8>>,
       <<Cat(<<WordBoundary, Lit("no"), Spaces1, Opt(Cat(<<Lit("pure"), Spaces1>>)),
               Opt(Cat(<<Lit("nash"), Spaces1>>)), Equilibri, WordBoundary>>), 9>>,
       <<Word("none"), 8>>,
       <<Word("neither"), 7>>,
       <<Cat(<<WordBoundary, Lit("zero"), Spaces1, Lit("equilibri")>>), 8>> >>

\* The affirmation table as the spec gives it.
spec_affirmation_rows ==
    << <<Cat(<<WordBoundary, Equilibri, Spaces1, Opt(Cat(<<Lit("does"), Spaces1>>)),
               Lit("exist"), Opt(Lit("s")), WordBoundary>>), 10>>,
       <<Cat(<<WordBoundary, Lit("there"), Spaces1, Alt(<<Lit("is"), Lit("are")>>), Spaces1,
               Alt(<<Lit("a"), Lit("an"), Lit("one"), Lit("two"), Lit("equilibri")>>)>>), 10>>,
       <<Cat(<<WordBoundary, Lit("exist"), Opt(Lit("s")), Spaces1, Lit("at"),
               WordBoundary>>), 9>>,
       <<Cat(<<WordBoundary, Lit("exist"), Opt(Lit("s")), WordBoundary>>), 7>>,
       <<Cat(<<WordBoundary, Alt(<<Lit("found"), Lit("identified")>>), Spaces1,
               Alt(<<Lit("a"), Lit("an"), Lit("equilibri")>>)>>), 8>>,
       <<Cat(<<WordBoundary, Lit("has"), Spaces1,
               Alt(<<Lit("a"), Lit("an"), Lit("equilibri")>>)>>), 7>> >>

\* C13: for a text classified as "claim made" that does not start with
\* "yes", the existence claim is false if and only if the negation sum
\* strictly exceeds the affirmation sum, each sum adding once per row of the
\* spec's table the weight of the row when it matches; equal sums give true.
C13_NegatedIffSpecSumsSay ==
    (/\ pc = "parsed"
     /\ student.claim_type = "equilibrium_mentioned"
     /\ ~BeginsWithWord(AnswerLower, "yes"))
        => (student.exists = FALSE
              <=> weighted_score(spec_negation_rows, 1, AnswerLower)
                      > weighted_score(spec_affirmation_rows, 1, AnswerLower))

\* No pair (rowLabel, colLabel) in parentheses occurs in the text.
NoLabelPair ==
    \A a \in 1 .. Len(question_data.row_labels), b \in 1 .. Len(question_data.col_labels) :
        ~re_search(pair_pattern(question_data.row_labels, question_data.col_labels, a, b),
                   Lower(student_answer))

\* C14: every text is interpreted (the parse yields a claim), and a text that
\* matches no domain-vocabulary pattern and no existence or quantifier
\* pattern and contains no label pair in parentheses yields existence false
\* and no position; the empty text is one of them.
C14_NoSignalDefaults ==
    /\ pc = "parsed" => (student.exists \in BOOLEAN /\ student.positions \in Seq(Int \X Int))
    /\ (/\ pc = "parsed"
        /\ ~AnySearch(equilibrium_keywords, AnswerLower)
        /\ ~AnySearch(existence_keywords, AnswerLower)
        /\ NoLabelPair)
           => (student.exists = FALSE /\ student.positions = <<>>)
    /\ (pc = "parsed" /\ student_answer = "")
           => (student.exists = FALSE /\ student.positions = <<>>)

\* The empty text, parsed.
C14_Witness ==
    /\ pc = "parsed"
    /\ student_answer = ""
    /\ student.exists = FALSE
    /\ student.positions = <<>>

\* C15: a text that is a bare "yes" or "no" is classified as a direct
\* answer, and its existence claim is true exactly when it starts with "yes".
C15_BareYesNoIsDirectAnswer ==
    (pc = "parsed" /\ AnswerLower \in {"yes", "no"})
        => /\ student.claim_type = "direct_answer"
           /\ student.exists <=> StartsWith(AnswerLower, "yes")

\* C16: "No pure Nash equilibrium exists in this game." is interpreted as
\* existence false with no position, although it matches the affirmation
\* patterns "equilibrium exists" and "exists".
C16_NegationExample ==
    (pc = "parsed" /\ student_answer = NegationExample)
        => (student.exists = FALSE /\ student.positions = <<>>)

\* The text of C16, parsed: its affirmation patterns weigh 10 + 7.
C16_Witness ==
    /\ pc = "parsed"
    /\ student_answer = NegationExample
    /\ weighted_score(affirmation_patterns, 1, AnswerLower) = 17
    /\ student.exists = FALSE

\* C17: "Yes, equilibrium exists at (U, L)" with the row labels U, M, D and
\* the column labels L, C, R is interpreted as existence true with the one
\* position (0, 0).
C17_AffirmationExample ==
    (/\ pc = "parsed"
     /\ student_answer = AffirmationExample
     /\ question_data.row_labels = <<"U", "M", "D">>
     /\ question_data.col_labels = <<"L", "C", "R">>)
        => (student.exists = TRUE /\ student.positions = <<<<0, 0>>>>)

\* The text of C17, parsed with the labels U, M, D and L, C, R.
C17_Witness ==
    /\ pc = "parsed"
    /\ student_answer = AffirmationExample
    /\ question_data.row_labels = <<"U", "M", "D">>
    /\ question_data.col_labels = <<"L", "C", "R">>
    /\ student.positions # <<>>

\* The label pairs (a, b), as 0-based indices, that occur in parentheses in
\* the text, compared without regard to letter case.
OccurringPairs ==
    {<<a - 1, b - 1>> : <<a, b>> \in
        {ab \in (1 .. Len(question_data.row_labels)) \X (1 .. Len(question_data.col_labels)) :
            re_search(pair_pattern(question_data.row_labels, question_data.col_labels,
                                   ab[1], ab[2]),
                      Lower(student_answer))}}

\* The labels of a list are unique.
Unique(list) == \A k, l \in 1 .. Len(list) : list[k] = list[l] => k = l

\* C18: for unique row and column labels, the claimed positions are exactly
\* the index pairs of the label pairs that occur in parentheses in the text,
\* compared without regard to letter case.
C18_PositionsAreTheOccurringPairs ==
    (/\ pc = "parsed"
     /\ Unique(question_data.row_labels)
     /\ Unique(question_data.col_labels))
        => ToSet(student.positions) = OccurringPairs

(***************************************************************************)
(* Claims about the generator, under SpecGenerate.                         *)
(***************************************************************************)
\* The request is one the spec calls inconsistent: min_payoff > max_payoff,
\* or a rows or cols override below 1.
InvalidConfiguration ==
    \/ min_payoff_of(request) > max_payoff_of(request)
    \/ "rows" \in DOMAIN request.kwargs /\ request.kwargs["rows"] < 1
    \/ "cols" \in DOMAIN request.kwargs /\ request.kwargs["cols"] < 1

\* C19: generate fails whenever minPayoff > maxPayoff or rows < 1 or
\* cols < 1 (an override of 0 or a negative override included), and then no
\* instance, partial or complete, is returned.
C19_InvalidConfigurationFails ==
    (pc \in {"generated", "error"} /\ InvalidConfiguration)
        => (pc = "error" /\ question_data = None /\ correct_answer = None)

\* The default dimensions the spec gives for a difficulty.
spec_default_dimensions(difficulty) ==
    IF difficulty = "easy" THEN {2}
    ELSE IF difficulty = "medium" THEN {2, 3}
    ELSE {3, 4}

\* The override where one is given, whatever its value, else the defaults.
OverrideOr(kwargs, key, defaults) ==
    IF key \in DOMAIN kwargs THEN {kwargs[key]} ELSE defaults

\* C20: the rows and cols of a generated instance are the overrides where an
\* override is given, and otherwise each is 2 for easy, in {2,3} for medium
\* and in {3,4} for hard.
C20_DimensionsOverriddenOrDefault ==
    pc = "generated" =>
        /\ question_data.rows \in OverrideOr(request.kwargs, "rows",
                                      spec_default_dimensions(request.difficulty))
        /\ question_data.cols \in OverrideOr(request.kwargs, "cols",
                                      spec_default_dimensions(request.difficulty))

\* C21: every generated instance has one payoff entry for every cell of
\* [0,rows) x [0,cols) and none outside, and both payoffs of every entry are
\* integers within [min_payoff, max_payoff].
C21_MatrixCoversGridWithinLimits ==
    pc = "generated" =>
        /\ DOMAIN question_data.matrix = AllCells
        /\ \A c \in AllCells :
               /\ Payoff1(c) \in Int
               /\ Payoff2(c) \in Int
               /\ min_payoff_of(request) <= Payoff1(c) /\ Payoff1(c) <= max_payoff_of(request)
               /\ min_payoff_of(request) <= Payoff2(c) /\ Payoff2(c) <= max_payoff_of(request)

\* A generated 2x2 instance of a request with min_payoff < max_payoff in
\* which both limits occur, and the two players' payoffs differ in a cell.
C21_Witness ==
    /\ pc = "generated"
    /\ question_data.rows = 2
    /\ question_data.cols = 2
    /\ min_payoff_of(request) < max_payoff_of(request)
    /\ \E c \in AllCells : Payoff1(c) = min_payoff_of(request)
    /\ \E c \in AllCells : Payoff2(c) = max_payoff_of(request)
    /\ \E c \in AllCells : Payoff1(c) # Payoff2(c)

\* The labels the spec gives for a dimension n: the first n of the three
\* letters when n <= 3, else prefix1 .. prefixn.
spec_labels(letters, prefix, n) ==
    IF n <= 3 THEN SubSeq(letters, 1, n) ELSE [k \in 1 .. n |-> prefix \o ToString(k)]

\* C22: the row labels of a generated instance are U, M, D truncated to rows
\* when rows <= 3 and R1..Rn otherwise, the column labels L, C, R truncated
\* to cols when cols <= 3 and C1..Cn otherwise; each list is as long as its
\* dimension and repeats no label.
C22_LabelsMatchDimensions ==
    pc = "generated" =>
        /\ question_data.row_labels = spec_labels(<<"U", "M", "D">>, "R", question_data.rows)
        /\ question_data.col_labels = spec_labels(<<"L", "C", "R">>, "C", question_data.cols)
        /\ Len(question_data.row_labels) = question_data.rows
        /\ Len(question_data.col_labels) = question_data.cols
        /\ \A k, l \in 1 .. Len(question_data.row_labels) :
               k # l => question_data.row_labels[k] # question_data.row_labels[l]
        /\ \A k, l \in 1 .. Len(question_data.col_labels) :
               k # l => question_data.col_labels[k] # question_data.col_labels[l]

\* C24: the answer returned by a generate call is the solver's result on the
\* instance returned by the same call: its equilibria are the cells of the
\* instance where neither player has a strictly better alternative, in
\* row-major order, exists says whether there is one, and the labels are the
\* labels of the instance.
C24_AnswerIsSolutionOfInstance ==
    pc = "generated" =>
        LET e == correct_answer.equilibria
        IN  /\ Returned = {c \in AllCells : NoBetterRow(c) /\ NoBetterCol(c)}
            /\ \A k \in 1 .. (Len(e) - 1) : RowMajorBefore(e[k], e[k + 1])
            /\ correct_answer.exists <=> (Len(e) > 0)
            /\ correct_answer.row_labels = question_data.row_labels
            /\ correct_answer.col_labels = question_data.col_labels

\* A generated 2x2 instance without equilibrium, returned with an empty list,
\* exists false and the row labels of the instance.
C24_Witness ==
    /\ pc = "generated"
    /\ question_data.rows = 2
    /\ question_data.cols = 2
    /\ ~correct_answer.exists
    /\ correct_answer.equilibria = <<>>
    /\ correct_answer.row_labels = <<"U", "M">>

(***************************************************************************)
(* Further claims about the scorer, under SpecGrade.                       *)
(***************************************************************************)
\* The tags of the four existence verdicts.
ExistenceVerdicts ==
    {"correct_exists", "correct_not_exists", "incorrect_said_exists",
     "incorrect_said_not_exists"}

\* The tags of a feedback sequence.
Tags(feedback) == [k \in 1 .. Len(feedback) |-> feedback[k].tag]

\* The position tags that the claim allows after the existence verdict.
PositionTags ==
    IF Claimed = Returned THEN <<"perfect">>
    ELSE IF Claimed = {} THEN <<"no_positions">>
    ELSE (IF Claimed \cap Returned # {} THEN <<"partial_found">> ELSE <<>>)
         \o (IF Claimed \ Returned # {} THEN <<"incorrectly_identified">> ELSE <<>>)
         \o (IF Returned \ Claimed # {} THEN <<"missed">> ELSE <<>>)

\* C25: the feedback starts with exactly one existence verdict; position
\* feedback follows only when the solution has an equilibrium, and then in the
\* order perfect-match or no-positions verdict, or else correctly-found,
\* incorrectly-claimed, missed, each present only when its set is non-empty;
\* without equilibrium the feedback has exactly one entry.
C25_FeedbackOrder ==
    pc = "graded" =>
        LET tags == Tags(result.feedback)
        IN  /\ Len(tags) >= 1
            /\ tags[1] \in ExistenceVerdicts
            /\ \A k \in 2 .. Len(tags) : tags[k] \notin ExistenceVerdicts
            /\ IF correct_answer.exists
               THEN SubSeq(tags, 2, Len(tags)) = PositionTags
               ELSE Len(tags) = 1

\* A graded answer with all three details: one correctly found position, one
\* incorrectly claimed, one missed, after the existence verdict.
C25_Witness ==
    /\ pc = "graded"
    /\ correct_answer.exists
    /\ Tags(result.feedback)
         = <<"correct_exists", "partial_found", "incorrectly_identified", "missed">>
    /\ result.feedback[2].count = 1
    /\ result.feedback[3].count = 1
    /\ result.feedback[4].count = 1

\* C27: when the solution has no equilibrium the score is 0 or 50, a correct
\* "no equilibrium" answer earns 50 and 100 is out of reach; a score of 100
\* needs an equilibrium, an affirmed existence and a claimed set equal to the
\* correct set.
C27_FullScoreNeedsEquilibrium ==
    pc = "graded" =>
        /\ ~correct_answer.exists =>
               /\ result.score \in {0, 5000}
               /\ ~student.exists => result.score = 5000
        /\ result.score = 10000 =>
               (correct_answer.exists /\ student.exists /\ Claimed = Returned)

\* A correct "no equilibrium" answer to a question without equilibrium, graded
\* 50.00 although it names positions.
C27_Witness ==
    /\ pc = "graded"
    /\ ~correct_answer.exists
    /\ ~student.exists
    /\ Claimed # {}
    /\ result.score = 5000

\* The score of the graded answer with the position c added to its list.
ScoreWith(c) ==
    evaluate_answer(student.exists, Append(student.positions, c),
                    correct_answer, question_data).score

\* C28: for a fixed existence claim and a solution with an equilibrium,
\* adding a position that is not an equilibrium to the claimed set never
\* increases the score, and adding a missing equilibrium never decreases it.
C28_ScoreMonotone ==
    (pc = "graded" /\ correct_answer.exists) =>
        \A c \in AllCells \ Claimed :
            IF c \in Returned
            THEN ScoreWith(c) >= result.score
            ELSE ScoreWith(c) <= result.score

\* An exact match of a game with a cell that is no equilibrium: claiming that
\* cell as well lowers the score.
C28_Witness ==
    /\ pc = "graded"
    /\ correct_answer.exists
    /\ Claimed = Returned
    /\ \E c \in AllCells \ Returned : ScoreWith(c) < result.score

\* C29: in the partial-credit branch the position score is at least half of
\* the base credit and strictly below 50 (both written over the denominator
\* |C|), so an answer that affirms existence and lists every cell of a game
\* with an equilibrium, not all of whose cells are equilibria, scores at
\* least 75.
C29_PenaltyAtMostHalf ==
    (pc = "graded" /\ correct_answer.exists /\ Claimed # {} /\ Claimed # Returned) =>
        LET n == Cardinality(Returned)
            base == 50 * Cardinality(Claimed \cap Returned)
            position == position_score(Claimed, Returned)
        IN  /\ 2 * position >= base
            /\ position < 50 * n
            /\ (student.exists /\ Claimed = AllCells) => result.score >= 7500

\* Every cell of a game is listed, existence is affirmed, and one cell is an
\* equilibrium while two are not: the penalty is capped and the score is 75.
C29_Witness ==
    /\ pc = "graded"
    /\ correct_answer.exists
    /\ student.exists
    /\ Claimed = AllCells
    /\ Cardinality(Returned) = 1
    /\ Cardinality(AllCells) = 3
    /\ result.score = 7500

(***************************************************************************)
(* Claims about the test service, under SpecTest.                          *)
(***************************************************************************)
\* Some listed question id is not stored.
SomeNotStored(question_ids) ==
    \E k \in 1 .. Len(question_ids) : question_ids[k] \notin db.questions

\* The call left the stored tests and associations as they were.
StoreUnchanged ==
    /\ db'.tests = db.tests
    /\ db'.test_questions = db.test_questions

\* The call stored one test, with one association per listed id carrying the
\* order_index 0..n-1 in the order of question_ids, and get_test_questions
\* returns the questions in that order.
StoredInOrder(question_ids) ==
    LET n == Len(question_ids)
        before == Len(db.test_questions)
    IN  /\ response'.returned.outcome = "Test"
        /\ response'.returned.test \notin db.tests
        /\ db'.tests = db.tests \cup {response'.returned.test}
        /\ Len(db'.test_questions) = before + n
        /\ SubSeq(db'.test_questions, 1, before) = db.test_questions
        /\ \A k \in 1 .. n :
               /\ db'.test_questions[before + k].test_id = response'.returned.test.id
               /\ db'.test_questions[before + k].question_id = question_ids[k]
               /\ db'.test_questions[before + k].order_index = k - 1
        /\ get_test_questions(db', response'.returned.test.id)
               = [outcome |-> "questions", questions |-> question_ids]

RowMajorCells ==
    [k \in 1 .. (question_data.rows * question_data.cols) |->
        <<(k - 1) \div question_data.cols, (k - 1) % question_data.cols>>]

\* The label pair of a cell.
LabelsOf(c) == <<question_data.row_labels[c[1] + 1], question_data.col_labels[c[2] + 1]>>

\* The places of the lines that open a cell.
CellStarts(lines) == {k \in 1 .. Len(lines) : lines[k].tag = "cell"}

\* The place of the n-th such line.
CellStart(lines, n) ==
    CHOOSE k \in CellStarts(lines) : Cardinality({m \in CellStarts(lines) : m < k}) = n - 1

\* The lines of the n-th cell: from its opening line to the line before the
\* next cell or before the three closing lines.
CellBlock(lines, n) ==
    SubSeq(lines, CellStart(lines, n),
           IF n < Cardinality(CellStarts(lines))
           THEN CellStart(lines, n + 1) - 1
           ELSE Len(lines) - 3)

\* The places of the lines of a block with one of the tags.
Tagged(block, tags) == {k \in 1 .. Len(block) : block[k].tag \in tags}

\* C23: the detailed explanation visits every cell exactly once in row-major
\* order, concludes "Nash equilibrium" for a cell if and only if the solver
\* returns it, names for each player who is not best-responding an
\* alternative row or column whose payoff is strictly greater than the
\* cell's, and its closing summary lists exactly the solver's positions, or
\* states that none exists when the solver returns none.
C23_DetailedMatchesSolver ==
    (pc = "explained" /\ explanation.detail_level = "detailed") =>
        LET lines == explanation.text
            e == correct_answer.equilibria
        IN  /\ Cardinality(CellStarts(lines)) = Len(RowMajorCells)
            /\ \A n \in 1 .. Len(RowMajorCells) :
                 LET c == RowMajorCells[n]
                     block == CellBlock(lines, n)
                 IN  /\ block[1].labels = LabelsOf(c)
                     /\ block[1].payoffs = question_data.matrix[c]
                     /\ Cardinality(Tagged(block, {"nash", "not_nash"})) = 1
                     /\ (Tagged(block, {"nash"}) # {}) <=> (c \in Returned)
                     /\ Cardinality(Tagged(block, {"p1_best", "p1_not_best"})) = 1
                     /\ Cardinality(Tagged(block, {"p2_best", "p2_not_best"})) = 1
                     /\ (Tagged(block, {"p1_not_best"}) # {}) <=> ~NoBetterRow(c)
                     /\ (Tagged(block, {"p2_not_best"}) # {}) <=> ~NoBetterCol(c)
                     /\ \A k \in Tagged(block, {"p1_not_best"}) :
                          \E a \in Range(question_data.rows) \ {c[1]} :
                              /\ block[k].labels = <<question_data.row_labels[a + 1]>>
                              /\ block[k].payoffs = <<Payoff1(<<a, c[2]>>)>>
                              /\ Payoff1(<<a, c[2]>>) > Payoff1(c)
                     /\ \A k \in Tagged(block, {"p2_not_best"}) :
                          \E b \in Range(question_data.cols) \ {c[2]} :
                              /\ block[k].labels = <<question_data.col_labels[b + 1]>>
                              /\ block[k].payoffs = <<Payoff2(<<c[1], b>>)>>
                              /\ Payoff2(<<c[1], b>>) > Payoff2(c)
            /\ lines[Len(lines)].tag = (IF Len(e) > 0 THEN "summary_exists" ELSE "summary_none")
            /\ Len(e) > 0 =>
                   lines[Len(lines)].labels
                       = [k \in 1 .. Len(e) |->
                             "(" \o LabelsOf(e[k])[1] \o ", " \o LabelsOf(e[k])[2] \o ")"]

\* The detailed explanation of a 2x2 game with one equilibrium, a cell where
\* player 1 is told of a better row and a cell where player 2 is told of a
\* better column.
C23_Witness ==
    /\ pc = "explained"
    /\ explanation.detail_level = "detailed"
    /\ question_data.rows = 2
    /\ question_data.cols = 2
    /\ Len(correct_answer.equilibria) = 1
    /\ \E k \in 1 .. Len(explanation.text) : explanation.text[k].tag = "p1_not_best"
    /\ \E k \in 1 .. Len(explanation.text) : explanation.text[k].tag = "p2_not_best"
    /\ \E k \in 1 .. Len(explanation.text) : explanation.text[k].tag = "nash"
    /\ explanation.text[Len(explanation.text)].tag = "summary_exists"

\* C30: the concise explanation of an instance, submitted as the student's
\* answer, is graded 100 when the instance has an equilibrium, existence
\* being affirmed and the extracted positions being the solver's positions,
\* and 50 when it has none.
C30_ConciseRoundTrip ==
    (pc = "graded" /\ student_answer = explanation.text) =>
        IF correct_answer.exists
        THEN /\ student.exists
             /\ student.positions = correct_answer.equilibria
             /\ result.score = 10000
        ELSE result.score = 5000

\* The concise explanation of a game with the two equilibria (U, L) and
\* (M, C) has been graded 100.
C30_Witness ==
    /\ pc = "graded"
    /\ student_answer = "Yes, pure Nash equilibrium exists at: (U, L), (M, C)"
    /\ student_answer = explanation.text
    /\ correct_answer.equilibria = <<<<0, 0>>, <<1, 1>>>>
    /\ student.positions = <<<<0, 0>>, <<1, 1>>>>
    /\ result.score = 10000

====
